---- MODULE Spec2Model ----
(***************************************************************************)
(* Ownership and marshalling model of the rust-sfml bindings:              *)
(*   graphics/shader/rc.rs  Shader (native handle + retained Rc<Texture>)  *)
(*   window/video_mode.rs   VideoMode (uint fields <-> native c_uint)      *)
(* The native library is an external collaborator: its answers (a null or  *)
(* fresh handle, the fullscreen table, the availability flag) are chosen   *)
(* nondeterministically.                                                   *)
(***************************************************************************)
EXTENDS Integers, Sequences, FiniteSets, TLC

VARIABLES
    shaders,      \* slot -> NoShader or the Shader struct [shader, texture]
    nextHandle,   \* next address the native allocator hands out
    destroyCount, \* handle -> number of sfShader_destroy calls received
    rc,           \* texture -> strong count of its Rc
    outer,        \* texture -> Rc clones held by the caller, outside any Shader
    texDropped,   \* texture -> the Texture value has been dropped
    raw,          \* raw handles the caller obtained through unwrap
    nativeAvail,  \* what sfShader_isAvailable answers at the moment
    avail,        \* the latest is_available call: answer seen, value returned,
                  \* and whether the call before it saw the same answer
    last          \* the latest operation: its inputs, native call and result

vars == <<shaders, nextHandle, destroyCount, rc, outer, texDropped,
          raw, nativeAvail, avail, last>>

shaderVars == <<shaders, nextHandle, destroyCount, rc, outer,
                texDropped, raw>>

-----------------------------------------------------------------------------
(* Bounds of the model *)

MaxShaders == 2
MaxHandles == MaxShaders
MaxTextures == 2
MaxOuter == 2
MaxDestroys == 2
MaxModes == 2

Slots == 1..MaxShaders
Handles == 1..MaxHandles
Textures == 1..MaxTextures
Names == {"a", "b"}

-----------------------------------------------------------------------------
(* Values *)

NullHandle == 0
NoTexture == 0
NoShader == [shader |-> NullHandle, texture |-> NoTexture, live |-> FALSE]

\* Option<&str>
None == [some |-> FALSE, val |-> ""]
Some(s) == [some |-> TRUE, val |-> s]
OptStr == {None, Some(""), Some("v")}

\* *const c_char handed to the native call
NullPtr == [null |-> TRUE, freed |-> FALSE, text |-> ""]

\* CString::from_slice(s.as_bytes()).as_ptr(): the CString is a temporary of
\* the statement, so its buffer is released as soon as the pointer is taken.
CStringAsPtr(s) == [null |-> FALSE, freed |-> TRUE, text |-> s]

\* faulty variant: the empty string is treated as absent
OptPtrEmptyIsNull(o) ==
    IF ~o.some \/ o.val = "" THEN NullPtr ELSE CStringAsPtr(o.val)

\* if x.is_none() { ptr::null() } else { CString::from_slice(..).as_ptr() }
OptPtr(o) == IF ~o.some THEN NullPtr ELSE CStringAsPtr(o.val)

\* faulty variant: the null test is missing
IsNullNever(h) == FALSE

\* shader.is_null()
IsNull(h) == h = NullHandle

Quiet == [op |-> "init"]

NewShaderValue(h) == [shader |-> h, texture |-> NoTexture, live |-> TRUE]

EmptySlots == {s \in Slots : ~shaders[s].live}
FreeSlot == CHOOSE s \in EmptySlots : \A r \in EmptySlots : s <= r

Holders(h) == {s \in Slots : shaders[s].live /\ shaders[s].shader = h}

-----------------------------------------------------------------------------
(* Rc<RefCell<Texture>>: strong counts and the drop of the shared value *)

\* faulty variant: the reference is never released
RcReleaseLeak(cnt, t) == cnt

\* drop of an Option<Rc<..>>: None releases nothing, Some(t) one strong count
RcRelease(cnt, t) ==
    IF t = NoTexture THEN cnt ELSE [cnt EXCEPT ![t] = @ - 1]

\* the shared value is dropped when its strong count reaches zero
DroppedAfter(dropped, cnt) ==
    [t \in Textures |-> dropped[t] \/ cnt[t] = 0]

\* faulty variant: the callee keeps a reference the caller still counts
MoveInBorrowed(held, t) == held

\* the Rc argument is moved into the callee: the caller holds one less
MoveIn(held, t) == [held EXCEPT ![t] = @ - 1]

\* let rc2 = rc.clone()
CloneRc(t) ==
    /\ outer[t] >= 1
    /\ outer[t] < MaxOuter
    /\ outer' = [outer EXCEPT ![t] = @ + 1]
    /\ rc' = [rc EXCEPT ![t] = @ + 1]
    /\ last' = [op |-> "clone_rc", texture |-> t]
    /\ UNCHANGED <<shaders, nextHandle, destroyCount, texDropped,
                   raw, nativeAvail, avail>>

\* an Rc held by the caller goes out of scope
DropRc(t) ==
    /\ outer[t] >= 1
    /\ outer' = [outer EXCEPT ![t] = @ - 1]
    /\ rc' = RcRelease(rc, t)
    /\ texDropped' = DroppedAfter(texDropped, rc')
    /\ last' = [op |-> "drop_rc", texture |-> t]
    /\ UNCHANGED <<shaders, nextHandle, destroyCount, raw,
                   nativeAvail, avail>>

-----------------------------------------------------------------------------
(* Shader *)

FromFileEntry == "sfShader_createFromFile"
FromMemoryEntry == "sfShader_createFromMemory"

\* the native entry point each factory calls
NativeEntry(op) == FromFileEntry

\* Body shared by new_from_file and new_from_memory, which differ in name
\* only: convert both inputs, call the native create function, test for null.
\* The native layer answers null or a freshly allocated handle.
NewShader(op, v, f) ==
    /\ nextHandle <= MaxHandles
    /\ EmptySlots # {}
    /\ \E h \in {NullHandle, nextHandle} :
         /\ nextHandle' = IF h = NullHandle THEN nextHandle ELSE nextHandle + 1
         /\ shaders' = IF IsNull(h) THEN shaders
                        ELSE [shaders EXCEPT ![FreeSlot] = NewShaderValue(h)]
         /\ last' = [op |-> op, v |-> v, f |-> f, fn |-> NativeEntry(op),
                     vptr |-> OptPtr(v), fptr |-> OptPtr(f), handle |-> h,
                     ret |-> IF IsNull(h) THEN 0 ELSE FreeSlot]
    /\ UNCHANGED <<destroyCount, rc, outer, texDropped, raw,
                   nativeAvail, avail>>

new_from_file(v, f) == NewShader("new_from_file", v, f)

new_from_memory(v, f) == NewShader("new_from_memory", v, f)

\* Wrappable::wrap on a raw handle the caller holds
wrap(h) ==
    /\ h \in raw
    /\ EmptySlots # {}
    /\ destroyCount[h] + Cardinality(Holders(h)) < MaxDestroys
    /\ shaders' = [shaders EXCEPT ![FreeSlot] = NewShaderValue(h)]
    /\ last' = [op |-> "wrap", handle |-> h, ret |-> FreeSlot]
    /\ UNCHANGED <<nextHandle, destroyCount, rc, outer, texDropped,
                   raw, nativeAvail, avail>>

\* Wrappable::unwrap: the handle is copied out, the wrapper keeps it
unwrap(s) ==
    /\ shaders[s].live
    /\ raw' = raw \cup {shaders[s].shader}
    /\ last' = [op |-> "unwrap", self |-> s, ret |-> shaders[s].shader]
    /\ UNCHANGED <<shaders, nextHandle, destroyCount, rc, outer,
                   texDropped, nativeAvail, avail>>

\* sfShader_destroy: one more destroy call on the handle (none on null)
NativeDestroy(h) ==
    IF h = NullHandle
    THEN UNCHANGED destroyCount
    ELSE destroyCount' = [destroyCount EXCEPT ![h] = @ + 1]

\* Drop for Shader, then the drop of its fields
drop(s) ==
    /\ shaders[s].live
    /\ NativeDestroy(shaders[s].shader)
    /\ rc' = RcRelease(rc, shaders[s].texture)
    /\ texDropped' = DroppedAfter(texDropped, rc')
    /\ shaders' = [shaders EXCEPT ![s] = NoShader]
    /\ last' = [op |-> "drop", self |-> s, handle |-> shaders[s].shader,
                texture |-> shaders[s].texture]
    /\ UNCHANGED <<nextHandle, outer, raw, nativeAvail, avail>>

\* the caller moves one of its Rc's in; the assignment to self.texture drops
\* the Option<Rc> that was there
set_texture_parameter(s, name, t) ==
    /\ shaders[s].live
    /\ outer[t] >= 1
    /\ outer' = MoveIn(outer, t)
    /\ rc' = RcRelease(rc, shaders[s].texture)
    /\ texDropped' = DroppedAfter(texDropped, rc')
    /\ shaders' = [shaders EXCEPT ![s].texture = t]
    /\ last' = [op |-> "set_texture_parameter", self |-> s, name |-> name,
                texture |-> t, ptr |-> CStringAsPtr(name)]
    /\ UNCHANGED <<nextHandle, destroyCount, raw, nativeAvail, avail>>

\* no texture object is involved: nothing is retained
set_current_texture_parameter(s, name) ==
    /\ shaders[s].live
    /\ last' = [op |-> "set_current_texture_parameter", self |-> s,
                name |-> name, ptr |-> CStringAsPtr(name)]
    /\ UNCHANGED <<shaderVars, nativeAvail, avail>>

\* set_float_parameter and its siblings (float 2/3/4, vector2/3, color):
\* name conversion and one native call, no state of the wrapper changes
ParamKinds == {"float", "float_2", "float_3", "float_4", "vector2", "vector3",
               "color"}

set_value_parameter(s, kind, name) ==
    /\ shaders[s].live
    /\ last' = [op |-> "set_" \o kind \o "_parameter", self |-> s,
                name |-> name, ptr |-> CStringAsPtr(name)]
    /\ UNCHANGED <<shaderVars, nativeAvail, avail>>

\* faulty variant: the two arms are swapped
SfBoolSwapped(b) == b = "SFFALSE"

\* match sfBool { SFFALSE => false, SFTRUE => true }
SfBoolToBool(b) == CASE b = "SFFALSE" -> FALSE [] b = "SFTRUE" -> TRUE

is_available ==
    /\ avail' = [called |-> TRUE, answer |-> nativeAvail,
                 ret |-> SfBoolToBool(nativeAvail),
                 repeat |-> avail.called /\ avail.answer = nativeAvail]
    /\ last' = [op |-> "is_available", ret |-> SfBoolToBool(nativeAvail)]
    /\ UNCHANGED <<shaderVars, nativeAvail>>

\* the environment: a driver change alters the native answer
DriverChange ==
    /\ nativeAvail' = IF nativeAvail = "SFTRUE" THEN "SFFALSE" ELSE "SFTRUE"
    /\ last' = [op |-> "driver_change"]
    /\ UNCHANGED <<shaderVars, avail>>

-----------------------------------------------------------------------------
(* VideoMode *)

CUintBits == 32    \* libc::c_uint, the native field type
UintBits == 64     \* uint, the host field type on a 64-bit host

\* An unsigned value is the little-endian sequence of its 16-bit limbs, so
\* that all 64 bits of a host value are kept exactly.
Limbs(bits) == bits \div 16
Zeros(n) == [i \in 1..n |-> 0]

\* x as c_uint: the low 32 bits are kept, the rest is cut off
AsCUint(x) == SubSeq(x, 1, Limbs(CUintBits))

\* x as uint: an unsigned value is zero-extended to the host width
AsUint(x) == x \o Zeros(Limbs(UintBits) - Len(x))

\* field values the host type holds: some fit the native width, some do not
CUintMax == <<2^16 - 1, 2^16 - 1>>
UintSamples ==
    {AsUint(<<0, 0>>), AsUint(<<32, 0>>), AsUint(CUintMax),
     <<0, 0, 1, 0>>, <<32, 0, 1, 0>>, <<2^16 - 1, 2^16 - 1, 2^16 - 1, 2^16 - 1>>}

VideoModes ==
    [width : UintSamples, height : UintSamples, bits_per_pixel : UintSamples]

\* modes the native layer can report
sfVideoModes ==
    {[width |-> <<0, 0>>, height |-> <<0, 0>>, bits_per_pixel |-> <<0, 0>>],
     [width |-> <<1920, 0>>, height |-> <<1080, 0>>, bits_per_pixel |-> <<32, 0>>],
     [width |-> <<1080, 0>>, height |-> <<1920, 0>>, bits_per_pixel |-> <<16, 0>>],
     [width |-> CUintMax, height |-> CUintMax, bits_per_pixel |-> CUintMax]}

\* Wrappable::wrap for VideoMode
VideoModeWrap(mode) ==
    [width |-> AsUint(mode.width), height |-> AsUint(mode.height),
     bits_per_pixel |-> AsUint(mode.bits_per_pixel)]

\* Wrappable::unwrap for VideoMode
VideoModeUnwrap(v) ==
    [width |-> AsCUint(v.width), height |-> AsCUint(v.height),
     bits_per_pixel |-> AsCUint(v.bits_per_pixel)]

\* the tables sfVideoMode_getFullscreenModes can hand back, with their count
NativeTables ==
    UNION {[1..n -> sfVideoModes] : n \in 0..MaxModes}

RECURSIVE PushAll(_, _)
\* for m in tab_slice.iter() { ret_tab.push(wrap(m.clone())) }
PushAll(ret_tab, tab) ==
    IF tab = <<>> THEN ret_tab
    ELSE PushAll(Append(ret_tab, VideoModeWrap(Head(tab))), Tail(tab))

\* faulty variant: the size == 0 test is missing
FullscreenModesEmptyVec(size, tab) ==
    [some |-> TRUE, val |-> PushAll(<<>>, SubSeq(tab, 1, size))]

\* if size == 0 { return None }; otherwise the first `size` entries, wrapped
FullscreenModes(size, tab) ==
    IF size = 0 THEN [some |-> FALSE, val |-> <<>>]
    ELSE [some |-> TRUE, val |-> PushAll(<<>>, SubSeq(tab, 1, size))]

get_fullscreen_modes ==
    /\ \E tab \in NativeTables :
         last' = [op |-> "get_fullscreen_modes", size |-> Len(tab),
                  tab |-> tab, ret |-> FullscreenModes(Len(tab), tab)]
    /\ UNCHANGED <<shaderVars, nativeAvail, avail>>

\* a VideoMode handed to the native layer and read back
wrap_unwrap ==
    /\ \E v \in VideoModes :
         last' = [op |-> "wrap_unwrap", v |-> v, native |-> VideoModeUnwrap(v),
                  ret |-> VideoModeWrap(VideoModeUnwrap(v))]
    /\ UNCHANGED <<shaderVars, nativeAvail, avail>>

\* a native mode wrapped and handed back to the native layer
unwrap_wrap ==
    /\ \E m \in sfVideoModes :
         last' = [op |-> "unwrap_wrap", m |-> m, host |-> VideoModeWrap(m),
                  ret |-> VideoModeUnwrap(VideoModeWrap(m))]
    /\ UNCHANGED <<shaderVars, nativeAvail, avail>>

-----------------------------------------------------------------------------
(* BlendMode *)

\* the variants in the order the enum declares them
BlendModes == <<"BlendAlpha", "BlendAdd", "BlendMultiply", "BlendNone">>

\* faulty variant: two discriminants are exchanged
DiscriminantSwapped(m) ==
    CASE m = "BlendAlpha" -> 0
      [] m = "BlendAdd" -> 2
      [] m = "BlendMultiply" -> 1
      [] m = "BlendNone" -> 3

\* the explicit discriminant of each variant (m as int)
Discriminant(m) ==
    CASE m = "BlendAlpha" -> 0
      [] m = "BlendAdd" -> 1
      [] m = "BlendMultiply" -> 2
      [] m = "BlendNone" -> 3

\* position of a variant in the declaration
DeclIndex(m) == CHOOSE i \in 1..Len(BlendModes) : BlendModes[i] = m

\* derive(PartialEq, Eq): two values are equal when they are the same variant
DerivedEq(a, b) == a = b

\* derive(PartialOrd, Ord): variants compare in declaration order
DerivedLt(a, b) == DeclIndex(a) < DeclIndex(b)

\* a blend mode is passed across the boundary as its integer
blend_as_int ==
    /\ \E i \in 1..Len(BlendModes) :
         last' = [op |-> "blend_as_int", m |-> BlendModes[i],
                  ret |-> Discriminant(BlendModes[i])]
    /\ UNCHANGED <<shaderVars, nativeAvail, avail>>

\* two blend modes are compared, as values and as integers
blend_cmp ==
    /\ \E i \in 1..Len(BlendModes), j \in 1..Len(BlendModes) :
         LET a == BlendModes[i]
             b == BlendModes[j]
         IN last' = [op |-> "blend_cmp", a |-> a, b |-> b,
                     eq |-> DerivedEq(a, b), lt |-> DerivedLt(a, b),
                     ia |-> Discriminant(a), ib |-> Discriminant(b)]
    /\ UNCHANGED <<shaderVars, nativeAvail, avail>>

-----------------------------------------------------------------------------

Init ==
    /\ shaders = [s \in Slots |-> NoShader]
    /\ nextHandle = 1
    /\ destroyCount = [h \in Handles |-> 0]
    /\ rc = [t \in Textures |-> 1]
    /\ outer = [t \in Textures |-> 1]
    /\ texDropped = [t \in Textures |-> FALSE]
    /\ raw = {}
    /\ nativeAvail = "SFTRUE"
    /\ avail = [called |-> FALSE, answer |-> "SFFALSE", ret |-> FALSE,
                repeat |-> FALSE]
    /\ last = Quiet

\* the caller's inputs when the text itself is not what is examined
PlainInputs == {<<Some("v"), None>>}

\* shaders and the textures they retain
Next ==
    \/ \E i \in PlainInputs : new_from_file(i[1], i[2])
    \/ \E i \in PlainInputs : new_from_memory(i[1], i[2])
    \/ \E s \in Slots : drop(s)
    \/ \E s \in Slots, n \in Names, t \in Textures : set_texture_parameter(s, n, t)
    \/ \E s \in Slots, n \in Names : set_current_texture_parameter(s, n)
    \/ \E t \in Textures : CloneRc(t)
    \/ \E t \in Textures : DropRc(t)

Spec == Init /\ [][Next]_vars

\* ownership of the native handle: factories, wrap, unwrap and drops
NextOwn ==
    \/ \E i \in PlainInputs : new_from_file(i[1], i[2])
    \/ \E i \in PlainInputs : new_from_memory(i[1], i[2])
    \/ \E h \in Handles : wrap(h)
    \/ \E s \in Slots : unwrap(s)
    \/ \E s \in Slots : drop(s)

SpecOwn == Init /\ [][NextOwn]_vars

\* every text input of the factories and of the parameter setters
NextCalls ==
    \/ \E v \in OptStr, f \in OptStr : new_from_file(v, f)
    \/ \E v \in OptStr, f \in OptStr : new_from_memory(v, f)
    \/ \E s \in Slots, k \in ParamKinds, n \in Names : set_value_parameter(s, k, n)
    \/ \E s \in Slots, n \in Names : set_current_texture_parameter(s, n)
    \/ \E s \in Slots : drop(s)

SpecCalls == Init /\ [][NextCalls]_vars

\* the capability query beside operations that do change shader state
NextAvail ==
    \/ is_available
    \/ DriverChange
    \/ \E i \in PlainInputs : new_from_file(i[1], i[2])
    \/ \E s \in Slots, n \in Names, t \in Textures : set_texture_parameter(s, n, t)
    \/ \E s \in Slots : drop(s)

SpecAvail == Init /\ [][NextAvail]_vars

\* the display-mode queries and conversions
NextVideo ==
    \/ get_fullscreen_modes
    \/ wrap_unwrap
    \/ unwrap_wrap

SpecVideo == Init /\ [][NextVideo]_vars

\* the value types that cross the boundary: display modes and blend modes
NextValues ==
    \/ NextVideo
    \/ blend_as_int
    \/ blend_cmp

SpecValues == Init /\ [][NextValues]_vars

-----------------------------------------------------------------------------
(* Properties *)

Factories == {"new_from_file", "new_from_memory"}

\* C1: every native shader handle is owned by at most one live wrapper at a
\* time, and sfShader_destroy is called on it at most once.
C1_SingleOwnerNoDoubleFree ==
    \A h \in Handles :
        /\ Cardinality(Holders(h)) <= 1
        /\ destroyCount[h] <= 1

\* C2: a texture a shader retains stays retained by that shader for as long
\* as the shader lives, whatever is done to the shader afterwards.
C2_RetainedForLifetime ==
    [][\A s \in Slots :
          (shaders[s].live /\ shaders[s].texture # NoTexture /\ shaders'[s].live)
              => shaders'[s].texture = shaders[s].texture]_vars

\* C3: a texture retained by a live shader has a strong count of at least one
\* and has not been dropped, whatever the caller did with its own references.
C3_RetainedTextureValid ==
    \A s \in Slots :
        (shaders[s].live /\ shaders[s].texture # NoTexture)
            => /\ rc[shaders[s].texture] >= 1
               /\ ~texDropped[shaders[s].texture]

\* C3 witness: the caller has dropped its last reference to a texture that a
\* shader retains, and the texture is still there.
C3_Witness ==
    /\ last.op = "drop_rc"
    /\ outer[last.texture] = 0
    /\ ~texDropped[last.texture]
    /\ \E s \in Slots : shaders[s].live /\ shaders[s].texture = last.texture

\* C4 as first stated: dropping a shader never drops a texture.
C4_DropNeverDropsTexture ==
    [][\A s \in Slots :
          (shaders[s].live /\ ~shaders'[s].live) => texDropped' = texDropped]_vars

\* C4, amended: dropping a shader calls the native destroy on its own handle
\* and releases the one reference it holds on its retained texture; that
\* texture is dropped exactly when the shader was its only holder, and no
\* other texture is touched.
C4_DropReleasesOneReference ==
    [][\A s \in Slots :
          (shaders[s].live /\ ~shaders'[s].live) =>
              LET h == shaders[s].shader
                  t == shaders[s].texture
              IN /\ destroyCount'[h] = destroyCount[h] + 1
                 /\ \A u \in Textures :
                      /\ texDropped'[u] <=> (texDropped[u] \/ (u = t /\ rc[u] = 1))
                      /\ rc'[u] = IF u = t THEN rc[u] - 1 ELSE rc[u]]_vars

\* C4 witness: a shader was dropped while another shader was the only other
\* holder of its texture, and the texture is still there.
C4_Witness ==
    /\ last.op = "drop"
    /\ last.texture # NoTexture
    /\ outer[last.texture] = 0
    /\ ~texDropped[last.texture]
    /\ \E s \in Slots : shaders[s].live /\ shaders[s].texture = last.texture

\* C5: a factory returns None exactly when the native create call returned a
\* null handle; otherwise the Shader it returns holds that non-null handle
\* and no texture. No shader made by a factory holds a null handle.
C5_FactoryResult ==
    /\ last.op \in Factories =>
          /\ last.ret = 0 <=> last.handle = NullHandle
          /\ last.ret # 0 =>
                shaders[last.ret] =
                    [shader |-> last.handle, texture |-> NoTexture, live |-> TRUE]
    /\ \A s \in Slots : shaders[s].live => shaders[s].shader # NullHandle

\* C5 witness: a factory call got a null handle and returned None while an
\* earlier call had returned a shader.
C5_Witness ==
    /\ last.op \in Factories
    /\ last.handle = NullHandle
    /\ last.ret = 0
    /\ \E s \in Slots : shaders[s].live

\* C8: each optional text input of a factory reaches the native call as a null
\* pointer exactly when it is None, and as a non-null pointer to its text when
\* it is present, the empty string included; with both absent and a null
\* handle back, the factory returns None.
C8_NullIffAbsent ==
    last.op \in Factories =>
        /\ last.vptr.null <=> ~last.v.some
        /\ last.fptr.null <=> ~last.f.some
        /\ last.v.some => last.vptr.text = last.v.val
        /\ last.f.some => last.fptr.text = last.f.val
        /\ (~last.v.some /\ ~last.f.some /\ last.handle = NullHandle)
              => last.ret = 0

\* C8 witness: a factory was given the empty string and an absent input.
C8_Witness ==
    /\ last.op \in Factories
    /\ last.v = Some("")
    /\ ~last.vptr.null
    /\ last.f = None
    /\ last.fptr.null

\* C9: new_from_memory hands its inputs to the native load-from-memory entry
\* point, new_from_file to the load-from-file entry point.
C9_MemoryEntryPoint ==
    /\ last.op = "new_from_memory" => last.fn = FromMemoryEntry
    /\ last.op = "new_from_file" => last.fn = FromFileEntry

\* C10: a call of is_available changes nothing of the shaders, handles and
\* textures, returns true exactly on the native true sentinel and false
\* exactly on the false one, and returns what the call before it returned
\* when the native answer has not changed.
C10_IsAvailablePure ==
    [][last'.op = "is_available" =>
          /\ UNCHANGED shaderVars
          /\ avail'.ret = TRUE <=> nativeAvail = "SFTRUE"
          /\ avail'.ret = FALSE <=> nativeAvail = "SFFALSE"
          /\ (avail.called /\ avail.answer = nativeAvail)
                => avail'.ret = avail.ret]_vars

\* C10 witness: is_available was called again with the native answer
\* unchanged, while a shader retaining a texture exists.
C10_Witness ==
    /\ last.op = "is_available"
    /\ avail.repeat
    /\ \E s \in Slots : shaders[s].live /\ shaders[s].texture # NoTexture

\* the numeric value of two limb sequences is the same, whatever their widths
SameValue(a, b) ==
    \A i \in 1..(Len(a) + Len(b)) :
        (IF i <= Len(a) THEN a[i] ELSE 0) = (IF i <= Len(b) THEN b[i] ELSE 0)

SameMode(v, m) ==
    /\ SameValue(v.width, m.width)
    /\ SameValue(v.height, m.height)
    /\ SameValue(v.bits_per_pixel, m.bits_per_pixel)

\* C6: get_fullscreen_modes returns None on a native count of 0 and never
\* Some of an empty sequence; on a count n > 0 it returns n modes, the i-th
\* with the width, height and depth of the i-th native entry.
C6_FullscreenModes ==
    last.op = "get_fullscreen_modes" =>
        /\ last.size = 0 => ~last.ret.some
        /\ last.ret.some => Len(last.ret.val) > 0
        /\ last.size > 0 =>
              /\ last.ret.some
              /\ Len(last.ret.val) = last.size
              /\ \A i \in 1..last.size : SameMode(last.ret.val[i], last.tab[i])

\* C6 witness: the native layer reported several different modes.
C6_Witness ==
    /\ last.op = "get_fullscreen_modes"
    /\ last.size >= 2
    /\ last.tab[1] # last.tab[2]
    /\ last.ret.some

\* C7: unwrap followed by wrap gives back every VideoMode unchanged.
C7_RoundTripExact ==
    last.op = "wrap_unwrap" => last.ret = last.v

\* C11: the blend modes have the integer identities 0, 1, 2, 3 in the order
\* BlendAlpha, BlendAdd, BlendMultiply, BlendNone; different modes have
\* different integers, and the enumeration's ordering is that of the integers.
C11_BlendModeIdentity ==
    /\ last.op = "blend_as_int" =>
          /\ last.m = "BlendAlpha" => last.ret = 0
          /\ last.m = "BlendAdd" => last.ret = 1
          /\ last.m = "BlendMultiply" => last.ret = 2
          /\ last.m = "BlendNone" => last.ret = 3
    /\ last.op = "blend_cmp" =>
          /\ last.eq <=> last.ia = last.ib
          /\ last.lt <=> last.ia < last.ib

\* C11 witness: two different blend modes were compared, the smaller first.
C11_Witness ==
    /\ last.op = "blend_cmp"
    /\ last.a = "BlendAdd"
    /\ last.b = "BlendMultiply"
    /\ last.lt

\* the text pointers the latest operation handed to its native call
TextPtrs(l) ==
    IF l.op \in Factories THEN {l.vptr, l.fptr}
    ELSE IF "ptr" \in DOMAIN l THEN {l.ptr}
    ELSE {}

\* C12: every non-null text pointer handed to a native call points at a
\* buffer that is still allocated while the call runs.
C12_TextBufferLive ==
    \A p \in TextPtrs(last) : ~p.null => ~p.freed

====
